---- MODULE Spec2Model ----
(***************************************************************************)
(* Model of src/Mobius-strip.py: class MobiusStrip (parameter grid, mesh,  *)
(* surface area and edge length of a parametric Moebius strip).            *)
(*                                                                         *)
(* Floating-point numbers are modelled as fixed-point integers: the float  *)
(* x is the integer x * Scale, and every arithmetic operation rounds its   *)
(* result to the nearest unit, as a float operation rounds to the nearest  *)
(* representable value.  Arrays are functions over 0 .. n-1, as in numpy.  *)
(***************************************************************************)
EXTENDS Integers, Sequences, FiniteSets

VARIABLES
    pc,        \* "none": no MobiusStrip object is bound; "live": one is
    R, w, n,   \* self.R, self.w, self.n
    u, v,      \* self.u, self.v      (1-D arrays)
    U, V,      \* self.U, self.V      (2-D arrays, indexed [i][j])
    mesh,      \* self.mesh: <<>> for None, else <<x, y, z>>
    ret_mesh,  \* what the last get_mesh() on this object returned (<<>>: not called)
    area,      \* what the last compute_surface_area() returned, <<a>> (<<>>: nothing yet)
    edge,      \* what the last compute_edge_length() returned, <<l>> (<<>>: nothing yet)
    lengths,   \* the values the local `length` took in the last compute_edge_length()
    last,      \* the last call: its name, its arguments, the exception it raised
    prev       \* <<[n, area]>>: the area measured on the object this one replaced

vars == <<pc, R, w, n, u, v, U, V, mesh, ret_mesh, area, edge, lengths, last, prev>>

self == <<R, w, n, u, v, U, V, mesh>>

(***************************************************************************)
(* Bounds of the model.                                                    *)
(***************************************************************************)
Scale == 1000          \* units per 1.0
MaxN == 4              \* largest resolution n passed to the constructor

RValues == {0, 3 * Scale}
WValues == {-1 * Scale, 0, 2 * Scale}
NValues == -1 .. MaxN

(***************************************************************************)
(* Fixed-point arithmetic.                                                 *)
(***************************************************************************)
Abs(a) == IF a < 0 THEN -a ELSE a

\* p / q rounded to the nearest unit, halves away from zero (q > 0)
RDiv(p, q) == IF p >= 0 THEN (2 * p + q) \div (2 * q)
                        ELSE -((2 * (-p) + q) \div (2 * q))

Mul(a, b) == RDiv(a * b, Scale)
Half(a) == RDiv(a, 2)
Sq(a) == Mul(a, a)

RECURSIVE Newton(_, _)
Newton(a, x0) == LET y0 == (x0 + a \div x0) \div 2
                 IN  IF y0 >= x0 THEN x0 ELSE Newton(a, y0)

Isqrt(a) == IF a < 2 THEN a ELSE Newton(a, a \div 2 + 1)

\* np.sqrt on a non-negative value
Sqrt(a) == LET r == Isqrt(a * Scale)
           IN  IF (r + 1) * (r + 1) - a * Scale <= a * Scale - r * r THEN r + 1 ELSE r

Pi == RDiv(355 * Scale, 113)
TwoPi == 2 * Pi
HalfPi == Half(Pi)

\* cos and sin on [0, pi/2]: the Taylor polynomial, in Horner form
CosQ(a) == LET a2 == Sq(a)
               t4 == Scale - RDiv(a2, 90)
               t3 == Scale - RDiv(Mul(a2, t4), 56)
               t2 == Scale - RDiv(Mul(a2, t3), 30)
               t1 == Scale - RDiv(Mul(a2, t2), 12)
           IN  Scale - RDiv(Mul(a2, t1), 2)

SinQ(a) == LET a2 == Sq(a)
               t4 == Scale - RDiv(a2, 72)
               t3 == Scale - RDiv(Mul(a2, t4), 42)
               t2 == Scale - RDiv(Mul(a2, t3), 20)
               t1 == Scale - RDiv(Mul(a2, t2), 6)
           IN  Mul(a, t1)

\* np.cos, np.sin: reduction of the argument to [0, pi/2], then the polynomial
Cos(a) == LET m == Abs(a) % TwoPi
              h == IF m > Pi THEN TwoPi - m ELSE m
          IN  IF h > HalfPi THEN -CosQ(Pi - h) ELSE CosQ(h)

Sin(a) == LET m == Abs(a) % TwoPi
              h == IF m > Pi THEN m - Pi ELSE m
              q == IF h > HalfPi THEN Pi - h ELSE h
              s == IF m > Pi THEN -SinQ(q) ELSE SinQ(q)
          IN  IF a < 0 THEN -s ELSE s

\* a / k for a float a and a non-zero Python int k
FDiv(a, k) == IF k > 0 THEN RDiv(a, k) ELSE -RDiv(a, -k)

RECURSIVE SumTo(_, _)
\* f[0] + ... + f[k]  (0 when k < 0): ndarray.sum
SumTo(f, k) == IF k < 0 THEN 0 ELSE f[k] + SumTo(f, k - 1)

(***************************************************************************)
(* numpy helpers, as called by the class.                                  *)
(***************************************************************************)
\* a slip in the call: np.linspace(start, stop, num, endpoint=False)
LinspaceOpen(start, stop, num) ==
    LET delta == stop - start
        step == IF num > 0 THEN RDiv(delta, num) ELSE 0
    IN  [j \in 0 .. num - 1 |-> j * step + start]

\* np.linspace(start, stop, num) for num >= 0 (num < 0 raises ValueError)
Linspace(start, stop, num) ==
    LET div == num - 1
        delta == stop - start
        step == IF div > 0 THEN RDiv(delta, div) ELSE 0
        y(j) == IF div > 0
                THEN IF step = 0 THEN Mul(RDiv(j * Scale, div), delta)
                                 ELSE j * step
                ELSE j * delta
    IN  [j \in 0 .. num - 1 |->
            IF num > 1 /\ j = num - 1 THEN stop ELSE y(j) + start]

\* np.meshgrid(a, b, indexing='ij'): the transposed layout
MeshgridIJ(a, b) ==
    << [i \in DOMAIN a |-> [j \in DOMAIN b |-> a[i]]],
       [i \in DOMAIN a |-> [j \in DOMAIN b |-> b[j]]] >>

\* np.meshgrid(a, b), default indexing 'xy': two arrays of shape (len(b), len(a))
Meshgrid(a, b) ==
    << [i \in DOMAIN b |-> [j \in DOMAIN a |-> a[j]]],
       [i \in DOMAIN b |-> [j \in DOMAIN a |-> b[i]]] >>

\* a slip in the rule: the left rectangle rule, (d * y[:-1]).sum()
TrapzLeft(y, d) ==
    LET m == Cardinality(DOMAIN y)
        t == [k \in 0 .. m - 2 |-> Mul(d, y[k])]
    IN  SumTo(t, m - 2)

\* np.trapz(y, dx=d) on a 1-D array: (d * (y[1:] + y[:-1]) / 2.0).sum()
Trapz(y, d) ==
    LET m == Cardinality(DOMAIN y)
        t == [k \in 0 .. m - 2 |-> Half(Mul(d, y[k + 1] + y[k]))]
    IN  SumTo(t, m - 2)

\* np.trapz(Y, dx=d, axis=0) on a 2-D array: one integral per column
TrapzAxis0(Y, d) ==
    LET rows == Cardinality(DOMAIN Y)
        cols == IF rows = 0 THEN {} ELSE DOMAIN Y[0]
    IN  [j \in cols |-> Trapz([i \in DOMAIN Y |-> Y[i][j]], d)]

(***************************************************************************)
(* The parametric equations and their partial derivatives, at one point.   *)
(***************************************************************************)
Px(R0, a, b) == Mul(R0 + Mul(b, Cos(Half(a))), Cos(a))
Py(R0, a, b) == Mul(R0 + Mul(b, Cos(Half(a))), Sin(a))
Pz(R0, a, b) == Mul(b, Sin(Half(a)))

x_u(R0, a, b) == Mul(-(R0 + Mul(b, Cos(Half(a)))), Sin(a))
                 - Mul(Mul(Half(b), Sin(Half(a))), Cos(a))
y_u(R0, a, b) == Mul(R0 + Mul(b, Cos(Half(a))), Cos(a))
                 - Mul(Mul(Half(b), Sin(Half(a))), Sin(a))
z_u(R0, a, b) == Mul(Half(b), Cos(Half(a)))

x_v(a) == Mul(Cos(Half(a)), Cos(a))
y_v(a) == Mul(Cos(Half(a)), Sin(a))
z_v(a) == Sin(Half(a))

\* the cross product magnitude |P_u x P_v| at one point
AreaIntegrand(R0, a, b) ==
    LET xu == x_u(R0, a, b)
        yu == y_u(R0, a, b)
        zu == z_u(R0, a, b)
        xv == x_v(a)
        yv == y_v(a)
        zv == z_v(a)
    IN  Sqrt(Sq(Mul(yu, zv) - Mul(zu, yv))
             + Sq(Mul(zu, xv) - Mul(xu, zv))
             + Sq(Mul(xu, yv) - Mul(yu, xv)))

\* the arc length integrand |P_u| at one point
ArcIntegrand(R0, a, b) ==
    Sqrt(Sq(x_u(R0, a, b)) + Sq(y_u(R0, a, b)) + Sq(z_u(R0, a, b)))

(***************************************************************************)
(* MobiusStrip                                                             *)
(***************************************************************************)
\* _generate_mesh: the (x, y, z) triple over the grid U, V
generate_mesh(R0, UU, VV) ==
    << [i \in DOMAIN UU |-> [j \in DOMAIN UU[i] |-> Px(R0, UU[i][j], VV[i][j])]],
       [i \in DOMAIN UU |-> [j \in DOMAIN UU[i] |-> Py(R0, UU[i][j], VV[i][j])]],
       [i \in DOMAIN UU |-> [j \in DOMAIN UU[i] |-> Pz(R0, UU[i][j], VV[i][j])]] >>

\* du = 2 * np.pi / (self.n - 1), for n0 # 1
du(n0) == FDiv(TwoPi, n0 - 1)

\* dv = self.w / (self.n - 1), for n0 # 1
dv(w0, n0) == FDiv(w0, n0 - 1)

\* integrand: |P_u x P_v| at every grid cell
IntegrandField(R0, UU, VV) ==
    [i \in DOMAIN UU |-> [j \in DOMAIN UU[i] |-> AreaIntegrand(R0, UU[i][j], VV[i][j])]]

\* a slip in the spacings: du along the v-axis, dv along the u-axis
SurfaceAreaSwapped(R0, w0, n0, UU, VV) ==
    Trapz(TrapzAxis0(IntegrandField(R0, UU, VV), du(n0)), dv(w0, n0))

\* a slip in the spacing: du used for both axes
SurfaceAreaDuTwice(R0, w0, n0, UU, VV) ==
    Trapz(TrapzAxis0(IntegrandField(R0, UU, VV), du(n0)), du(n0))

\* the value compute_surface_area returns once du and dv are computed
SurfaceArea(R0, w0, n0, UU, VV) ==
    LET integrand == IntegrandField(R0, UU, VV)
    IN  Trapz(TrapzAxis0(integrand, dv(w0, n0)), du(n0))

\* the length of one boundary curve v = b
EdgeCurve(R0, n0, uu, b) ==
    LET integrand == [j \in DOMAIN uu |-> ArcIntegrand(R0, uu[j], b)]
    IN  Trapz(integrand, du(n0))

RECURSIVE EdgeLoop(_, _, _, _, _)
\* the for loop over v_edges: the sequence of the values of `length`
EdgeLoop(R0, n0, uu, v_edges, k) ==
    IF k > Len(v_edges) THEN <<>>
    ELSE <<EdgeCurve(R0, n0, uu, v_edges[k])>> \o EdgeLoop(R0, n0, uu, v_edges, k + 1)

RECURSIVE SeqSum(_)
\* total_length = 0; total_length += length, once per iteration
SeqSum(s) == IF s = <<>> THEN 0 ELSE s[1] + SeqSum(Tail(s))

\* a slip in the edge list: only the edge at +w/2
v_edges_one(w0) == <<Half(w0)>>

\* v_edges = [self.w / 2, -self.w / 2]
v_edges(w0) == <<Half(w0), Half(-w0)>>

Call(op, args, raised) == [op |-> op, args |-> args, raised |-> raised]

Init ==
    /\ pc = "none"
    /\ R = 0 /\ w = 0 /\ n = 0
    /\ u = <<>> /\ v = <<>> /\ U = <<>> /\ V = <<>>
    /\ mesh = <<>>
    /\ ret_mesh = <<>> /\ area = <<>> /\ edge = <<>> /\ lengths = <<>>
    /\ last = Call("none", <<>>, "none")
    /\ prev = <<>>

\* MobiusStrip(R0, w0, n0): __init__, and the binding of the new object
MobiusStrip_init(R0, w0, n0) ==
    IF n0 < 0
    THEN \* np.linspace raises ValueError; no object is bound
         /\ last' = Call("construct", <<R0, w0, n0>>, "ValueError")
         /\ UNCHANGED <<pc, R, w, n, u, v, U, V, mesh, ret_mesh, area, edge, lengths, prev>>
    ELSE LET uu == Linspace(0, TwoPi, n0)
             vv == Linspace(Half(-w0), Half(w0), n0)
             G == Meshgrid(uu, vv)
         IN  /\ pc' = "live"
             /\ R' = R0 /\ w' = w0 /\ n' = n0
             /\ u' = uu /\ v' = vv
             /\ U' = G[1] /\ V' = G[2]
             /\ mesh' = generate_mesh(R0, G[1], G[2])
             /\ ret_mesh' = <<>> /\ area' = <<>> /\ edge' = <<>> /\ lengths' = <<>>
             /\ prev' = IF area # <<>> THEN <<[n |-> n, area |-> area[1]]>> ELSE prev
             /\ last' = Call("construct", <<R0, w0, n0>>, "none")

\* the first object of a run
Construct == pc = "none" /\ \E R0 \in RValues, w0 \in WValues, n0 \in NValues :
                 MobiusStrip_init(R0, w0, n0)

\* the same strip at another resolution, replacing the object
Rebuild == pc = "live" /\ \E n0 \in NValues : MobiusStrip_init(R, w, n0)

get_mesh ==
    /\ pc = "live"
    /\ ret_mesh' = <<mesh>>
    /\ last' = Call("get_mesh", <<>>, "none")
    /\ UNCHANGED <<pc, R, w, n, u, v, U, V, mesh, area, edge, lengths, prev>>

compute_surface_area ==
    /\ pc = "live"
    /\ IF n - 1 = 0
       THEN \* du = 2 * np.pi / (self.n - 1): float division by zero
            /\ last' = Call("compute_surface_area", <<>>, "ZeroDivisionError")
            /\ UNCHANGED area
       ELSE /\ area' = <<SurfaceArea(R, w, n, U, V)>>
            /\ last' = Call("compute_surface_area", <<>>, "none")
    /\ UNCHANGED <<pc, R, w, n, u, v, U, V, mesh, ret_mesh, edge, lengths, prev>>

\* a slip in the loop: `for self.w in v_edges`, the loop variable stored in self.w
compute_edge_length_clobber ==
    /\ pc = "live"
    /\ IF n - 1 = 0
       THEN /\ last' = Call("compute_edge_length", <<>>, "ZeroDivisionError")
            /\ UNCHANGED <<edge, lengths, w>>
       ELSE LET ls == EdgeLoop(R, n, u, v_edges(w), 1)
            IN  /\ lengths' = ls
                /\ edge' = <<SeqSum(ls)>>
                /\ w' = Half(-w)
                /\ last' = Call("compute_edge_length", <<>>, "none")
    /\ UNCHANGED <<pc, R, n, u, v, U, V, mesh, ret_mesh, area, prev>>

compute_edge_length ==
    /\ pc = "live"
    /\ IF n - 1 = 0
       THEN \* du = 2 * np.pi / (self.n - 1): float division by zero
            /\ last' = Call("compute_edge_length", <<>>, "ZeroDivisionError")
            /\ UNCHANGED <<edge, lengths>>
       ELSE LET ls == EdgeLoop(R, n, u, v_edges(w), 1)
            IN  /\ lengths' = ls
                /\ edge' = <<SeqSum(ls)>>
                /\ last' = Call("compute_edge_length", <<>>, "none")
    /\ UNCHANGED <<pc, R, w, n, u, v, U, V, mesh, ret_mesh, area, prev>>

Next ==
    \/ Construct
    \/ Rebuild
    \/ get_mesh
    \/ compute_surface_area
    \/ compute_edge_length

Spec == Init /\ [][Next]_vars

(***************************************************************************)
(* Properties.                                                             *)
(***************************************************************************)
Ops == {"get_mesh", "compute_surface_area", "compute_edge_length"}

\* C1: construct(R, w, n) fails, in construct itself, for every n < 2, and
\* binds no object.  (The code raises only for n < 0.)
C1_ConstructRejectsSmallN ==
    (last.op = "construct" /\ last.args[3] < 2) => last.raised # "none"

\* C2: once construct has returned an object, no later get_mesh,
\* compute_surface_area or compute_edge_length raises.
C2_NoErrorAfterConstruct ==
    last.op \in Ops => last.raised = "none"

\* C3: on every object construct returns, the area returned and the edge
\* length returned are >= 0.
C3_MetricsNonNegative ==
    /\ area # <<>> => area[1] >= 0
    /\ edge # <<>> => edge[1] >= 0

\* C4: for n >= 2 get_mesh returns three n x n arrays, and the point at
\* [i][j] is the parametric position at (u[j], v[i]).
C4_MeshLayout ==
    (pc = "live" /\ n >= 2 /\ ret_mesh # <<>>) =>
        LET m == ret_mesh[1]
        IN  /\ Len(m) = 3
            /\ \A c \in 1 .. 3 :
                   /\ DOMAIN m[c] = 0 .. n - 1
                   /\ \A i \in 0 .. n - 1 : DOMAIN m[c][i] = 0 .. n - 1
            /\ \A i \in 0 .. n - 1 : \A j \in 0 .. n - 1 :
                   /\ m[1][i][j] = Px(R, u[j], v[i])
                   /\ m[2][i][j] = Py(R, u[j], v[i])
                   /\ m[3][i][j] = Pz(R, u[j], v[i])

C4_Witness ==
    /\ pc = "live" /\ n >= 3 /\ R > 0 /\ w > 0
    /\ ret_mesh # <<>>
    /\ ret_mesh[1][3][n - 1][1] # ret_mesh[1][3][1][n - 1]

\* C5: get_mesh, compute_surface_area and compute_edge_length leave R, w, n,
\* u, v, U, V and the mesh unchanged; get_mesh returns the stored mesh, and a
\* metric called again returns the value it returned before.
C5_ReadOnlyOps ==
    [][last'.op \in Ops =>
          /\ self' = self
          /\ ret_mesh' # <<>> => ret_mesh'[1] = mesh
          /\ (area # <<>> /\ area' # <<>>) => area' = area
          /\ (edge # <<>> /\ edge' # <<>>) => edge' = edge]_vars

C5_Witness ==
    /\ pc = "live" /\ n >= 2 /\ w # 0
    /\ area # <<>> /\ edge # <<>> /\ ret_mesh # <<>>
    /\ ret_mesh[1] = mesh
    /\ last.op = "get_mesh"

\* C6: construct accepts w = 0 with n >= 2; on that object the area is 0 and
\* the two per-edge lengths are equal, both the length of the curve v = 0.
C6_ZeroWidth ==
    /\ (last.op = "construct" /\ last.args[2] = 0 /\ last.args[3] >= 2) =>
           (last.raised = "none" /\ pc = "live" /\ w = 0 /\ n = last.args[3])
    /\ (pc = "live" /\ w = 0 /\ n >= 2 /\ area # <<>>) => area[1] = 0
    /\ (pc = "live" /\ w = 0 /\ n >= 2 /\ edge # <<>>) =>
           /\ Len(lengths) = 2
           /\ lengths[1] = lengths[2]
           /\ lengths[1] = Trapz([j \in 0 .. n - 1 |-> ArcIntegrand(R, u[j], 0)],
                                 FDiv(TwoPi, n - 1))

C6_Witness ==
    /\ pc = "live" /\ w = 0 /\ n >= 3 /\ R > 0
    /\ area = <<0>>
    /\ edge # <<>> /\ lengths[1] > 0

\* C7 as stated: for n1 < n2 the area at n2 is at least the area at n1.
C7_AreaIncreasesWithN ==
    (pc = "live" /\ prev # <<>> /\ area # <<>> /\ prev[1].n >= 2 /\ prev[1].n < n) =>
        area[1] >= prev[1].area

\* C7, amended: for w >= 0 the area at n = 2 is an upper bound of the area at
\* every n >= 2 (the estimate does not increase from the coarsest grid).
C7_CoarsestIsLargest ==
    (pc = "live" /\ w >= 0 /\ prev # <<>> /\ area # <<>>) =>
        /\ (prev[1].n = 2 /\ n >= 2) => area[1] <= prev[1].area
        /\ (n = 2 /\ prev[1].n >= 2) => prev[1].area <= area[1]

C7_Witness ==
    /\ pc = "live" /\ w > 0 /\ prev # <<>> /\ area # <<>>
    /\ prev[1].n = 2 /\ n > 2
    /\ area[1] < prev[1].area

RECURSIVE SumRange(_, _, _)
\* f(lo) + ... + f(hi)
SumRange(f(_), lo, hi) == IF lo > hi THEN 0 ELSE f(lo) + SumRange(f, lo + 1, hi)

\* the trapezoid sum over v, with spacing w / (n - 1), at the angle sample j
InnerOverV(j) ==
    LET cell(i) == Half(Mul(FDiv(w, n - 1),
                            AreaIntegrand(R, u[j], v[i + 1]) + AreaIntegrand(R, u[j], v[i])))
    IN  SumRange(cell, 0, n - 2)

\* the trapezoid sum over u, with spacing 2 pi / (n - 1), of the sums over v
OuterOverU ==
    LET cell(j) == Half(Mul(FDiv(TwoPi, n - 1), InnerOverV(j + 1) + InnerOverV(j)))
    IN  SumRange(cell, 0, n - 2)

\* C8: the area is the trapezoid rule along u, spacing du, of the n values
\* obtained by the trapezoid rule along v, spacing dv, at each angle sample.
C8_NestedIntegration ==
    (pc = "live" /\ n >= 2 /\ area # <<>>) => area[1] = OuterOverU

C8_Witness ==
    /\ pc = "live" /\ n >= 3 /\ w > 0 /\ R > 0
    /\ area # <<>> /\ area[1] > 0

\* the trapezoid sum over u, spacing 2 pi / (n - 1), of |P_u| on the curve v = b
ArcOverU(b) ==
    LET cell(j) == Half(Mul(FDiv(TwoPi, n - 1),
                            ArcIntegrand(R, u[j + 1], b) + ArcIntegrand(R, u[j], b)))
    IN  SumRange(cell, 0, n - 2)

\* C9: the edge length is the sum of exactly two arc length integrals, the
\* first at v = +w/2 and the second at v = -w/2, also when the two coincide.
C9_TwoEdgesSummed ==
    (pc = "live" /\ n >= 2 /\ edge # <<>>) =>
        /\ Len(lengths) = 2
        /\ lengths[1] = ArcOverU(Half(w))
        /\ lengths[2] = ArcOverU(Half(-w))
        /\ edge[1] = lengths[1] + lengths[2]

C9_Witness ==
    /\ pc = "live" /\ n >= 3 /\ w = 0 /\ R > 0
    /\ edge # <<>> /\ Len(lengths) = 2
    /\ lengths[1] = lengths[2] /\ lengths[1] > 0
    /\ edge[1] = 2 * lengths[1]

\* the rounding a grid of n0 samples accumulates, in units of the last place
GridTol(n0) == n0

\* C10: for n >= 2, u and v have n samples running from 0 to 2 pi and from
\* -w/2 to w/2, uniformly spaced, and the du and dv the metrics recompute
\* are the spacing of the stored grid (to the rounding of the last place).
C10_GridInvariant ==
    (pc = "live" /\ n >= 2) =>
        /\ DOMAIN u = 0 .. n - 1 /\ DOMAIN v = 0 .. n - 1
        /\ u[0] = 0 /\ u[n - 1] = TwoPi
        /\ v[0] = Half(-w) /\ v[n - 1] = Half(w)
        /\ \A j \in 0 .. n - 2 :
               /\ Abs((u[j + 1] - u[j]) - du(n)) <= GridTol(n)
               /\ Abs((v[j + 1] - v[j]) - dv(w, n)) <= GridTol(n)

C10_Witness ==
    /\ pc = "live" /\ n >= 4 /\ w # 0
    /\ u[n - 1] = TwoPi /\ u[1] = du(n) /\ v[1] - v[0] = dv(w, n)
    /\ last.op \in {"compute_surface_area", "compute_edge_length"}
    /\ last.raised = "none"

====
